---- MODULE Spec2Model ----
(***************************************************************************)
(* A model of cocomud's GameEngine (src/src/game.py).                      *)
(*                                                                         *)
(* Every method is modelled statement by statement: a thread's frame holds *)
(* the method it is in, the line it is about to execute (pc) and the       *)
(* method's arguments and locals.  The engine's operations fall into      *)
(* families that share no state but the main logger, which is fixed once   *)
(* the constructor has returned; each specification runs the constructor   *)
(* and one family:                                                         *)
(*   Spec      __init__, load, open and the world map (control thread)     *)
(*   SpecLog   __init__ and create_logger (control thread)                 *)
(*   SpecConc  SpecLog plus worker threads calling create_logger           *)
(*   SpecHelp  __init__ and open_help (control thread)                     *)
(*   SpecWire  Spec plus a worker thread that reads a world's wiring       *)
(*   SpecSettings  __init__, load and the layered settings store           *)
(*   SpecDistinct  SpecConc with concurrent calls only for distinct names  *)
(*   SpecUpdater   the events and the handlers of the Updater frame        *)
(***************************************************************************)
EXTENDS Integers, Sequences, FiniteSets, TLC

\* ------------------------------------------------------------- bounds
\* Number of Client / SharpScript objects the engine may construct.
MaxOpens == 2

\* ------------------------------------------------------------- values
None == "None"
Unset == "Unset"

Main == "main"
Workers == {"worker"}
Threads == {Main} \cup Workers

\* Names passed to create_logger ("" is the main logger) and file overrides.
LogNames == {"", "sharp", "client"}
FileNames == {None, "", "logs/custom.log"}

\* Worlds (objects created by the configuration), hosts, ports, help names.
Worlds == {"w1", "w2"}
Hosts == {"mud.example.org"}
Ports == {4000}
HelpNames == {"macros"}
Langs == {"en", "fr"}

\* Objects the engine constructs in open().
ClientId(i) == "client" \o ToString(i)
SharpId(i) == "sharp" \o ToString(i)
Clients == {ClientId(i) : i \in 1..MaxOpens}
Sharps == {SharpId(i) : i \in 1..MaxOpens}

\* Level with the ranks reversed.
Level_Reversed == [engine |-> 4, world |-> 3, character |-> 2, category |-> 1]

\* class Level(Enum)
Level == [engine |-> 1, world |-> 2, character |-> 3, category |-> 4]

\* Severities of the logging module, as used by create_logger.
LevelNo == [DEBUG |-> 10, INFO |-> 20]

\* os.path.join
PathJoin2(a, b) == a \o "/" \o b
PathJoin3(a, b, c) == a \o "/" \o b \o "/" \o c

\* Python truthiness of an optional string argument.
Falsy(x) == x = None \/ x = ""

\* create_logger, lines 104-109: the physical name and the file of a logger.
PhysicalName(name) == IF Falsy(name) THEN "cocomud" ELSE "cocomud." \o name
ResolveFile(name, filename) ==
    IF Falsy(name) THEN PathJoin2("logs", "main.log")
    ELSE IF Falsy(filename) THEN PathJoin2("logs", name \o ".log")
    ELSE filename

PhysNames == {PhysicalName(n) : n \in LogNames}

\* The handlers create_logger attaches.
StreamHandler == [kind |-> "stream", level |-> "INFO", file |-> None,
                  formatter |-> FALSE]
FileHandler(filename) == [kind |-> "file", level |-> "DEBUG", file |-> filename,
                          formatter |-> TRUE]

VARIABLES
    engineState,  \* "absent", "constructing", "live" or "aborted"
    logsDir,      \* whether the directory "logs" exists
    loggerLevel,  \* logging module: level of each named logger
    handlers,     \* logging module: handlers of each named logger
    loggers,      \* self.loggers: physical name -> logger
    logger,       \* self.logger
    settings,     \* self.settings: Unset, "constructed" or "loaded"
    worlds,       \* self.worlds (the worlds in the map)
    default_world,\* self.default_world
    level,        \* self.level
    TTS_on,       \* self.TTS_on
    TTS_outside,  \* self.TTS_outside
    wclient,      \* world.client
    wsharp,       \* world.sharp_engine
    wengine,      \* world.engine
    clients,      \* Client objects: host, port, world, sharp_engine
    sharps,       \* SharpScript objects: client, world
    options,      \* the options settings.load() has read
    language,     \* what settings.get_language() answers
    docs,         \* the paths of the help files that exist
    default_text, \* Updater: self.default_text
    text,         \* Updater: the value of self.text (the text control)
    gauge,        \* Updater: the value of self.gauge
    destroyed,    \* Updater: the frame has been destroyed
    events,       \* Updater: the events posted to the frame, not yet handled
    handled,      \* Updater: the events its handlers have been called with
    frame         \* per thread: current call, position, locals, outcome

vars == <<engineState, logsDir, loggerLevel, handlers, loggers, logger, settings,
          worlds, default_world, level, TTS_on, TTS_outside, wclient, wsharp,
          wengine, clients, sharps, options, language, docs, default_text,
          text, gauge, destroyed, events, handled, frame>>

logVars == <<loggerLevel, handlers, loggers, logger>>
engVars == <<settings, worlds, default_world, level, TTS_on, TTS_outside>>
wireVars == <<wclient, wsharp, clients, sharps>>
updVars == <<default_text, text, gauge, destroyed, events, handled>>
envVars == <<options, language, docs, updVars>>

\* A thread that is in no call and has made none.
IdleFrame ==
    [op |-> "none", pc |-> "idle", result |-> "none", ret |-> None,
     name |-> None, filename |-> None, lname |-> None, lfile |-> None,
     host |-> None, port |-> 0, world |-> None, client |-> None,
     sharp_engine |-> None, pre |-> <<None, None>>,
     lang |-> None, lpath |-> None, todo |-> {}, seen |-> <<>>,
     logs |-> <<>>, started |-> <<>>, value |-> 0, text |-> None]

Idle(t) == frame[t].pc = "idle"
At(t, pc) == frame[t].pc = pc

\* The frame of a call that has just begun.
Enter(op, pc) == [IdleFrame EXCEPT !.op = op, !.pc = pc]

\* The frame after `return value` / after an exception leaves the call.
\* The arguments and locals are gone; what the caller can see is kept.
Leave(f) == [f EXCEPT !.pc = "idle", !.name = None, !.filename = None,
                      !.host = None, !.port = 0,
                      !.client = None, !.sharp_engine = None, !.lpath = None,
                      !.todo = {}, !.value = 0, !.text = None]
Returned(f, value) == [Leave(f) EXCEPT !.result = "returned", !.ret = value]
Raised(f) == [Leave(f) EXCEPT !.result = "raised", !.ret = None]

\* An exception that leaves __init__ leaves no engine.
StateAfterRaise(f) == IF f.op = "__init__" THEN "aborted" ELSE engineState

\* logger.info / logger.debug on a named logger: the record reaches the
\* logger's handlers whose level admits it.
Admits(h, lvl) == LevelNo[h.level] <= LevelNo[lvl]
LogRecord(lg, lvl, msg) ==
    [level |-> lvl, msg |-> msg,
     sinks |-> IF loggerLevel[lg] = "NOTSET" THEN <<>>
               ELSE SelectSeq(handlers[lg], LAMBDA h : Admits(h, lvl))]
Log(f, lg, lvl, msg) == [f EXCEPT !.logs = Append(@, LogRecord(lg, lvl, msg))]

Init ==
    /\ engineState = "absent"
    /\ logsDir \in BOOLEAN
    /\ loggerLevel = [n \in PhysNames |-> "NOTSET"]
    /\ handlers = [n \in PhysNames |-> <<>>]
    /\ loggers = <<>>
    /\ logger = Unset
    /\ settings = Unset
    /\ worlds = {}
    /\ default_world = Unset
    /\ level = Unset
    /\ TTS_on = Unset
    /\ TTS_outside = Unset
    /\ wclient = [w \in Worlds |-> None]
    /\ wsharp = [w \in Worlds |-> None]
    /\ wengine = [w \in Worlds |-> None]
    /\ clients = <<>>
    /\ sharps = <<>>
    /\ options = Unset
    /\ language = "en"
    /\ docs = {}
    /\ default_text = "Loading..."
    /\ text = "Loading..."
    /\ gauge = 0
    /\ destroyed = FALSE
    /\ events = <<>>
    /\ handled = <<>>
    /\ frame = [t \in Threads |-> IdleFrame]

\* ------------------------------------------------- GameEngine.__init__

\* engine = GameEngine()
Construct(t) ==
    /\ t = Main
    /\ engineState = "absent"
    /\ Idle(t)
    /\ engineState' = "constructing"
    /\ frame' = [frame EXCEPT ![t] = Enter("__init__", "init_85")]
    /\ UNCHANGED <<logsDir, logVars, engVars, wireVars, wengine, envVars>>

\* if not os.path.exists("logs"): os.mkdir("logs")
Init85(t) ==
    /\ At(t, "init_85")
    /\ \/ /\ logsDir
          /\ frame' = [frame EXCEPT ![t].pc = "init_88"]
          /\ UNCHANGED <<logsDir, engineState>>
       \/ /\ ~logsDir
          /\ logsDir' = TRUE
          /\ frame' = [frame EXCEPT ![t].pc = "init_88"]
          /\ UNCHANGED engineState
       \/ /\ ~logsDir   \* os.mkdir fails
          /\ frame' = [frame EXCEPT ![t] = Raised(@)]
          /\ engineState' = StateAfterRaise(frame[t])
          /\ UNCHANGED logsDir
    /\ UNCHANGED <<logVars, engVars, wireVars, wengine, envVars>>

\* self.loggers = {}
Init88(t) ==
    /\ At(t, "init_88")
    /\ loggers' = <<>>
    /\ frame' = [frame EXCEPT ![t].pc = "init_89"]
    /\ UNCHANGED <<engineState, logsDir, loggerLevel, handlers, logger, engVars,
                   wireVars, wengine, envVars>>

\* self.logger = self.create_logger("")  -- the call
Init89(t) ==
    /\ At(t, "init_89")
    /\ frame' = [frame EXCEPT ![t].pc = "cl_104", ![t].name = "",
                              ![t].filename = None]
    /\ UNCHANGED <<engineState, logsDir, logVars, engVars, wireVars, wengine,
                   envVars>>

\* self.logger = self.create_logger("")  -- the assignment
Init89Assign(t) ==
    /\ At(t, "init_89_assign")
    /\ logger' = frame[t].ret
    /\ frame' = [frame EXCEPT ![t].pc = "init_90"]
    /\ UNCHANGED <<engineState, logsDir, loggerLevel, handlers, loggers, engVars,
                   wireVars, wengine, envVars>>

\* self.settings = Settings(self)
Init90(t) ==
    /\ At(t, "init_90")
    /\ settings' = "constructed"
    /\ frame' = [frame EXCEPT ![t].pc = "init_91"]
    /\ UNCHANGED <<engineState, logsDir, logVars, worlds, default_world, level,
                   TTS_on, TTS_outside, wireVars, wengine, envVars>>

\* self.worlds = {}
Init91(t) ==
    /\ At(t, "init_91")
    /\ worlds' = {}
    /\ frame' = [frame EXCEPT ![t].pc = "init_92"]
    /\ UNCHANGED <<engineState, logsDir, logVars, settings, default_world, level,
                   TTS_on, TTS_outside, wireVars, wengine, envVars>>

\* self.default_world = None
Init92(t) ==
    /\ At(t, "init_92")
    /\ default_world' = None
    /\ frame' = [frame EXCEPT ![t].pc = "init_93"]
    /\ UNCHANGED <<engineState, logsDir, logVars, settings, worlds, level,
                   TTS_on, TTS_outside, wireVars, wengine, envVars>>

\* Init93 without the assignment of the level.
Init93_Skipped(t) ==
    /\ At(t, "init_93")
    /\ frame' = [frame EXCEPT ![t].pc = "init_94"]
    /\ UNCHANGED <<engineState, logsDir, logVars, engVars, wireVars, wengine,
                   envVars>>

\* self.level = Level.engine
Init93(t) ==
    /\ At(t, "init_93")
    /\ level' = "engine"
    /\ frame' = [frame EXCEPT ![t].pc = "init_94"]
    /\ UNCHANGED <<engineState, logsDir, logVars, settings, worlds, default_world,
                   TTS_on, TTS_outside, wireVars, wengine, envVars>>

\* self.logger.info("CocoMUD engine started"), and __init__ returns
Init94(t) ==
    /\ At(t, "init_94")
    /\ frame' = [frame EXCEPT
                   ![t] = Returned(Log(@, logger, "INFO", "engine started"), None)]
    /\ engineState' = "live"
    /\ UNCHANGED <<logsDir, logVars, engVars, wireVars, wengine, envVars>>

\* ---------------------------------------------- GameEngine.create_logger

\* engine.create_logger(name, filename)
CallCreateLogger(t, name, filename) ==
    /\ engineState = "live"
    /\ Idle(t)
    /\ frame' = [frame EXCEPT ![t] = [Enter("create_logger", "cl_104") EXCEPT
                                        !.name = name, !.filename = filename]]
    /\ UNCHANGED <<engineState, logsDir, logVars, engVars, wireVars, wengine,
                   envVars>>

\* lines 104-109: resolve the file and the physical name
CL104(t) ==
    /\ At(t, "cl_104")
    /\ frame' = [frame EXCEPT
                   ![t].pc = "cl_111",
                   ![t].lfile = ResolveFile(frame[t].name, frame[t].filename),
                   ![t].lname = PhysicalName(frame[t].name)]
    /\ UNCHANGED <<engineState, logsDir, logVars, engVars, wireVars, wengine,
                   envVars>>

\* return from create_logger, to __init__ or to the caller of the engine
ReturnLogger(f, lg) ==
    IF f.op = "__init__" THEN [f EXCEPT !.pc = "init_89_assign", !.ret = lg]
    ELSE Returned(f, lg)

\* CL111 without the test of line 111: every call builds the logger.
CL111_NoLookup(t) ==
    /\ At(t, "cl_111")
    /\ frame' = [frame EXCEPT ![t].pc = "cl_114"]
    /\ UNCHANGED <<engineState, logsDir, logVars, engVars, wireVars, wengine,
                   envVars>>

\* lines 111-112: if name in self.loggers: return self.loggers[name]
CL111(t) ==
    /\ At(t, "cl_111")
    /\ frame' = [frame EXCEPT ![t] =
                   IF @.lname \in DOMAIN loggers
                   THEN ReturnLogger(@, loggers[@.lname])
                   ELSE [@ EXCEPT !.pc = "cl_114"]]
    /\ UNCHANGED <<engineState, logsDir, logVars, engVars, wireVars, wengine,
                   envVars>>

\* lines 114-117: logger = logging.getLogger(name); logger.setLevel(DEBUG)
CL114(t) ==
    /\ At(t, "cl_114")
    /\ loggerLevel' = [loggerLevel EXCEPT ![frame[t].lname] = "DEBUG"]
    /\ frame' = [frame EXCEPT ![t].pc = "cl_120"]
    /\ UNCHANGED <<engineState, logsDir, handlers, loggers, logger, engVars,
                   wireVars, wengine, envVars>>

\* CL120 without the test of line 120: every logger gets a stream handler.
CL120_EveryLogger(t) ==
    /\ At(t, "cl_120")
    /\ handlers' = [handlers EXCEPT ![frame[t].lname] = Append(@, StreamHandler)]
    /\ frame' = [frame EXCEPT ![t].pc = "cl_126"]
    /\ UNCHANGED <<engineState, logsDir, loggerLevel, loggers, logger, engVars,
                   wireVars, wengine, envVars>>

\* lines 120-123: the main logger gets a stream handler
CL120(t) ==
    /\ At(t, "cl_120")
    /\ handlers' = IF frame[t].lname = "cocomud"
                   THEN [handlers EXCEPT !["cocomud"] = Append(@, StreamHandler)]
                   ELSE handlers
    /\ frame' = [frame EXCEPT ![t].pc = "cl_126"]
    /\ UNCHANGED <<engineState, logsDir, loggerLevel, loggers, logger, engVars,
                   wireVars, wengine, envVars>>

\* lines 126-128: handler = logging.FileHandler(filename, encoding="utf-8"),
\* which opens the file (every file here lies in logs/) and so may fail
CL126(t) ==
    /\ At(t, "cl_126")
    /\ \/ /\ logsDir
          /\ frame' = [frame EXCEPT ![t].pc = "cl_129"]
          /\ UNCHANGED engineState
       \/ /\ frame' = [frame EXCEPT ![t] = Raised(@)]
          /\ engineState' = StateAfterRaise(frame[t])
    /\ UNCHANGED <<logsDir, logVars, engVars, wireVars, wengine, envVars>>

\* line 129: logger.addHandler(handler)
CL129(t) ==
    /\ At(t, "cl_129")
    /\ handlers' = [handlers EXCEPT
                      ![frame[t].lname] = Append(@, FileHandler(frame[t].lfile))]
    /\ frame' = [frame EXCEPT ![t].pc = "cl_130"]
    /\ UNCHANGED <<engineState, logsDir, loggerLevel, loggers, logger, engVars,
                   wireVars, wengine, envVars>>

\* CL130 that rebuilds the cache with the new logger alone.
CL130_ReplacesCache(t) ==
    /\ At(t, "cl_130")
    /\ loggers' = (frame[t].lname :> frame[t].lname)
    /\ frame' = [frame EXCEPT ![t] = ReturnLogger(@, @.lname)]
    /\ UNCHANGED <<engineState, logsDir, loggerLevel, handlers, logger, engVars,
                   wireVars, wengine, envVars>>

\* lines 130-131: self.loggers[name] = logger; return logger
CL130(t) ==
    /\ At(t, "cl_130")
    /\ loggers' = (frame[t].lname :> frame[t].lname) @@ loggers
    /\ frame' = [frame EXCEPT ![t] = ReturnLogger(@, @.lname)]
    /\ UNCHANGED <<engineState, logsDir, loggerLevel, handlers, logger, engVars,
                   wireVars, wengine, envVars>>

\* ----------------------------------------------------- GameEngine.load

\* The settings are four override layers, one per Level, each a map from the
\* keys it defines to their values, and the map of the declared defaults.
LevelNames == {"engine", "world", "character", "category"}
Values == {"A", "B", "C"}
NoLayers == [l \in LevelNames |-> <<>>]
TTSDefaults == ("options.TTS.on" :> "A") @@ ("options.TTS.outside" :> "B")

\* What settings.load() may read: the layers and the declared defaults.
Configs ==
    {[layers |-> NoLayers, defaults |-> TTSDefaults],
     [layers |-> [NoLayers EXCEPT !.engine = ("options.TTS.on" :> "A"),
                                  !.world = ("options.TTS.on" :> "B")],
      defaults |-> <<>>],
     [layers |-> NoLayers, defaults |-> <<>>]}

\* The layers that define a key, and the most specific of some layers: the
\* one of the highest Level.
Defining(key) == {l \in LevelNames : key \in DOMAIN options.layers[l]}
MostSpecific(ls) == CHOOSE l \in ls : \A m \in ls : Level[m] <= Level[l]

\* settings[key]: the value in the most specific layer that defines the key,
\* else the declared default; without either the lookup fails (KeyError).
Resolvable(key) == Defining(key) # {} \/ key \in DOMAIN options.defaults
SettingsGet(key) ==
    IF Defining(key) # {} THEN options.layers[MostSpecific(Defining(key))][key]
    ELSE options.defaults[key]

\* engine.load()
CallLoad(t) ==
    /\ t = Main
    /\ engineState = "live"
    /\ Idle(t)
    /\ frame' = [frame EXCEPT ![t] = Enter("load", "load_135")]
    /\ UNCHANGED <<engineState, logsDir, logVars, engVars, wireVars, wengine,
                   envVars>>

\* self.logger.info("Loading the user's configuration...")
Load135(t) ==
    /\ At(t, "load_135")
    /\ frame' = [frame EXCEPT
                   ![t] = [Log(@, logger, "INFO", "loading") EXCEPT !.pc = "load_136"]]
    /\ UNCHANGED <<engineState, logsDir, logVars, engVars, wireVars, wengine,
                   envVars>>

\* self.settings.load()
Load136(t) ==
    /\ At(t, "load_136")
    /\ \E cfg \in Configs : options' = cfg
    /\ settings' = "loaded"
    /\ frame' = [frame EXCEPT ![t].pc = "load_137"]
    /\ UNCHANGED <<engineState, logsDir, logVars, worlds, default_world, level,
                   TTS_on, TTS_outside, wireVars, wengine, language, docs,
                   updVars>>

\* Load137 with the lookup error swallowed: the flag becomes None.
Load137_Placeholder(t) ==
    /\ At(t, "load_137")
    /\ TTS_on' = IF Resolvable("options.TTS.on")
                 THEN SettingsGet("options.TTS.on") ELSE None
    /\ frame' = [frame EXCEPT ![t].pc = "load_138"]
    /\ UNCHANGED <<engineState, logsDir, logVars, settings, worlds, default_world,
                   level, TTS_outside, wireVars, wengine, envVars>>

\* self.TTS_on = self.settings["options.TTS.on"]
Load137(t) ==
    /\ At(t, "load_137")
    /\ IF Resolvable("options.TTS.on")
       THEN /\ TTS_on' = SettingsGet("options.TTS.on")
            /\ frame' = [frame EXCEPT ![t].pc = "load_138"]
       ELSE /\ frame' = [frame EXCEPT ![t] = Raised(@)]
            /\ UNCHANGED TTS_on
    /\ UNCHANGED <<engineState, logsDir, logVars, settings, worlds, default_world,
                   level, TTS_outside, wireVars, wengine, envVars>>

\* self.TTS_outside = self.settings["options.TTS.outside"]
Load138(t) ==
    /\ At(t, "load_138")
    /\ IF Resolvable("options.TTS.outside")
       THEN /\ TTS_outside' = SettingsGet("options.TTS.outside")
            /\ frame' = [frame EXCEPT ![t].pc = "load_141", ![t].todo = worlds]
       ELSE /\ frame' = [frame EXCEPT ![t] = Raised(@)]
            /\ UNCHANGED TTS_outside
    /\ UNCHANGED <<engineState, logsDir, logVars, settings, worlds, default_world,
                   level, TTS_on, wireVars, wengine, envVars>>

\* Load141 without the loop: load returns after caching the flags.
Load141_NoLoop(t) ==
    /\ At(t, "load_141")
    /\ frame' = [frame EXCEPT ![t] = Returned(@, None)]
    /\ UNCHANGED wengine
    /\ UNCHANGED <<engineState, logsDir, logVars, engVars, wireVars, envVars>>

\* for world in self.worlds.values(): world.engine = self
\* (one iteration, or the end of the loop and of load)
Load141(t) ==
    /\ At(t, "load_141")
    /\ IF frame[t].todo = {}
       THEN /\ frame' = [frame EXCEPT ![t] = Returned(@, None)]
            /\ UNCHANGED wengine
       ELSE \E w \in frame[t].todo :
               /\ wengine' = [wengine EXCEPT ![w] = "self"]
               /\ frame' = [frame EXCEPT ![t].todo = @ \ {w}]
    /\ UNCHANGED <<engineState, logsDir, logVars, engVars, wireVars, envVars>>

LoadStep(t) ==
    \/ CallLoad(t) \/ Load135(t) \/ Load136(t) \/ Load137(t) \/ Load138(t)
    \/ Load141(t)

\* ------------------------------------------------------- SettingsStore

\* The keys that are set, removed and looked up.
SetKeys == {"options.TTS.on"}
GetKeys == {"options.TTS.on", "options.TTS.outside", "nonexistent.key"}

\* A value is set for a key at a level; only that layer changes.
SetOption(l, key, v) ==
    /\ engineState = "live"
    /\ settings = "loaded"
    /\ Idle(Main)
    /\ options' = [options EXCEPT !.layers[l] = (key :> v) @@ @]
    /\ options' # options
    /\ UNCHANGED <<engineState, logsDir, logVars, engVars, wireVars, wengine,
                   language, docs, updVars, frame>>

\* The override of a key at a level is removed.
RemoveOption(l, key) ==
    /\ engineState = "live"
    /\ settings = "loaded"
    /\ Idle(Main)
    /\ key \in DOMAIN options.layers[l]
    /\ options' = [options EXCEPT
                      !.layers[l] = [k \in DOMAIN @ \ {key} |-> @[k]]]
    /\ UNCHANGED <<engineState, logsDir, logVars, engVars, wireVars, wengine,
                   language, docs, updVars, frame>>

\* settings[key], called on a loaded store
CallGet(t, key) ==
    /\ t = Main
    /\ engineState = "live"
    /\ settings = "loaded"
    /\ Idle(t)
    /\ frame' = [frame EXCEPT ![t] = [Enter("get", "get_resolve") EXCEPT
                                        !.name = key]]
    /\ UNCHANGED <<engineState, logsDir, logVars, engVars, wireVars, wengine,
                   envVars>>

\* the lookup returns the resolved value or raises
GetResolve(t) ==
    /\ At(t, "get_resolve")
    /\ frame' = [frame EXCEPT ![t] =
                   IF Resolvable(@.name) THEN Returned(@, SettingsGet(@.name))
                   ELSE Raised(@)]
    /\ UNCHANGED <<engineState, logsDir, logVars, engVars, wireVars, wengine,
                   envVars>>

SettingsStep(t) ==
    \/ \E k \in GetKeys : CallGet(t, k)
    \/ GetResolve(t)
    \/ \E l \in LevelNames, k \in SetKeys, v \in Values : SetOption(l, k, v)
    \/ \E l \in LevelNames, k \in SetKeys : RemoveOption(l, k)

\* The configuration (or the user interface) puts a world into engine.worlds.
AddWorld(w) ==
    /\ engineState = "live"
    /\ Idle(Main)
    /\ w \notin worlds
    /\ worlds' = worlds \cup {w}
    /\ UNCHANGED <<engineState, logsDir, logVars, settings, default_world, level,
                   TTS_on, TTS_outside, wireVars, wengine, envVars, frame>>

\* ----------------------------------------------------- GameEngine.open

\* engine.open(host, port, world)
CallOpen(t, host, port, world) ==
    /\ t = Main
    /\ engineState = "live"
    /\ Idle(t)
    /\ Cardinality(DOMAIN clients) < MaxOpens
    /\ frame' = [frame EXCEPT ![t] = [Enter("open", "open_151") EXCEPT
                    !.host = host, !.port = port, !.world = world,
                    !.pre = <<wclient[world], wsharp[world]>>]]
    /\ UNCHANGED <<engineState, logsDir, logVars, engVars, wireVars, wengine,
                   envVars>>

\* self.logger.info("Creating a client for {host}:{port}")
Open151(t) ==
    /\ At(t, "open_151")
    /\ frame' = [frame EXCEPT ![t] =
                   [Log(@, logger, "INFO",
                        "Creating a client for " \o @.host \o ":" \o ToString(@.port))
                    EXCEPT !.pc = "open_154"]]
    /\ UNCHANGED <<engineState, logsDir, logVars, engVars, wireVars, wengine,
                   envVars>>

\* Open154 that reuses the client a world already has.
Open154_ReusesClient(t) ==
    /\ At(t, "open_154")
    /\ \/ LET c == IF wclient[frame[t].world] # None THEN wclient[frame[t].world]
                    ELSE ClientId(Cardinality(DOMAIN clients) + 1) IN
          /\ clients' = (c :> [host |-> frame[t].host, port |-> frame[t].port,
                               world |-> frame[t].world, sharp_engine |-> None])
                        @@ clients
          /\ frame' = [frame EXCEPT ![t].pc = "open_155", ![t].client = c]
       \/ /\ frame' = [frame EXCEPT ![t] = Raised(@)]
          /\ UNCHANGED clients
    /\ UNCHANGED <<engineState, logsDir, logVars, engVars, wclient, wsharp, sharps,
                   wengine, envVars>>

\* client = GUIClient(host, port, engine=self, world=world); may raise
Open154(t) ==
    /\ At(t, "open_154")
    /\ \/ LET c == ClientId(Cardinality(DOMAIN clients) + 1) IN
          /\ clients' = (c :> [host |-> frame[t].host, port |-> frame[t].port,
                               world |-> frame[t].world, sharp_engine |-> None])
                        @@ clients
          /\ frame' = [frame EXCEPT ![t].pc = "open_155", ![t].client = c]
       \/ /\ frame' = [frame EXCEPT ![t] = Raised(@)]
          /\ UNCHANGED clients
    /\ UNCHANGED <<engineState, logsDir, logVars, engVars, wclient, wsharp, sharps,
                   wengine, envVars>>

\* Open155 with world.client assigned before the SharpScript is built.
Open155_WiresFirst(t) ==
    /\ At(t, "open_155")
    /\ wclient' = [wclient EXCEPT ![frame[t].world] = frame[t].client]
    /\ \/ LET s == SharpId(Cardinality(DOMAIN sharps) + 1) IN
          /\ sharps' = (s :> [client |-> frame[t].client, world |-> frame[t].world])
                       @@ sharps
          /\ frame' = [frame EXCEPT ![t].pc = "open_156", ![t].sharp_engine = s]
       \/ /\ frame' = [frame EXCEPT ![t] = Raised(@)]
          /\ UNCHANGED sharps
    /\ UNCHANGED <<engineState, logsDir, logVars, engVars, wsharp, clients,
                   wengine, envVars>>

\* sharp_engine = SharpScript(self, client, world); may raise
Open155(t) ==
    /\ At(t, "open_155")
    /\ \/ LET s == SharpId(Cardinality(DOMAIN sharps) + 1) IN
          /\ sharps' = (s :> [client |-> frame[t].client, world |-> frame[t].world])
                       @@ sharps
          /\ frame' = [frame EXCEPT ![t].pc = "open_156", ![t].sharp_engine = s]
       \/ /\ frame' = [frame EXCEPT ![t] = Raised(@)]
          /\ UNCHANGED sharps
    /\ UNCHANGED <<engineState, logsDir, logVars, engVars, wclient, wsharp, clients,
                   wengine, envVars>>

\* Open156 with the client stored on every world (a class attribute).
Open156_EveryWorld(t) ==
    /\ At(t, "open_156")
    /\ wclient' = [w \in Worlds |-> frame[t].client]
    /\ frame' = [frame EXCEPT ![t].pc = "open_157"]
    /\ UNCHANGED <<engineState, logsDir, logVars, engVars, wsharp, clients, sharps,
                   wengine, envVars>>

\* world.client = client
Open156(t) ==
    /\ At(t, "open_156")
    /\ wclient' = [wclient EXCEPT ![frame[t].world] = frame[t].client]
    /\ frame' = [frame EXCEPT ![t].pc = "open_157"]
    /\ UNCHANGED <<engineState, logsDir, logVars, engVars, wsharp, clients, sharps,
                   wengine, envVars>>

\* Open157 without the assignment.
Open157_Skipped(t) ==
    /\ At(t, "open_157")
    /\ frame' = [frame EXCEPT ![t].pc = "open_158"]
    /\ UNCHANGED <<engineState, logsDir, logVars, engVars, wclient, wsharp, clients,
                   sharps, wengine, envVars>>

\* client.sharp_engine = sharp_engine
Open157(t) ==
    /\ At(t, "open_157")
    /\ clients' = [clients EXCEPT
                     ![frame[t].client].sharp_engine = frame[t].sharp_engine]
    /\ frame' = [frame EXCEPT ![t].pc = "open_158"]
    /\ UNCHANGED <<engineState, logsDir, logVars, engVars, wclient, wsharp, sharps,
                   wengine, envVars>>

\* Open158 without the assignment.
Open158_Skipped(t) ==
    /\ At(t, "open_158")
    /\ frame' = [frame EXCEPT ![t].pc = "open_159"]
    /\ UNCHANGED <<engineState, logsDir, logVars, engVars, wclient, wsharp, clients,
                   sharps, wengine, envVars>>

\* world.sharp_engine = sharp_engine
Open158(t) ==
    /\ At(t, "open_158")
    /\ wsharp' = [wsharp EXCEPT ![frame[t].world] = frame[t].sharp_engine]
    /\ frame' = [frame EXCEPT ![t].pc = "open_159"]
    /\ UNCHANGED <<engineState, logsDir, logVars, engVars, wclient, clients, sharps,
                   wengine, envVars>>

\* return client
Open159(t) ==
    /\ At(t, "open_159")
    /\ frame' = [frame EXCEPT ![t] = Returned(@, @.client)]
    /\ UNCHANGED <<engineState, logsDir, logVars, engVars, wireVars, wengine,
                   envVars>>

OpenStep(t) ==
    \/ \E h \in Hosts, p \in Ports, w \in Worlds : CallOpen(t, h, p, w)
    \/ Open151(t) \/ Open154(t) \/ Open155(t) \/ Open156(t) \/ Open157(t)
    \/ Open158(t) \/ Open159(t)

\* Another thread (the client's own I/O, say) reads a world's wiring.
Observe(t, w) ==
    /\ t \in Workers
    /\ engineState = "live"
    /\ Idle(t)
    /\ frame' = [frame EXCEPT ![t] = [Enter("observe", "idle") EXCEPT
                    !.world = w,
                    !.seen = <<wclient[w], wsharp[w],
                               IF wclient[w] = None THEN None
                               ELSE clients[wclient[w]].sharp_engine>>]]
    /\ UNCHANGED <<engineState, logsDir, logVars, engVars, wireVars, wengine,
                   envVars>>

\* ------------------------------------------------- GameEngine.open_help

\* The path of a help file.
HelpFile(name) == name \o ".html"
DocPath(lang, filename) == PathJoin3("doc", lang, filename)
AllDocs == {DocPath(l, HelpFile(n)) : l \in Langs, n \in HelpNames}

\* os.path.exists
Exists(path) == path \in docs

\* Help files are installed or removed, the user picks another language.
SetDocs(d) ==
    /\ Idle(Main)
    /\ d # docs
    /\ docs' = d
    /\ UNCHANGED <<engineState, logsDir, logVars, engVars, wireVars, wengine,
                   options, language, updVars, frame>>

SetLanguage(l) ==
    /\ Idle(Main)
    /\ l # language
    /\ language' = l
    /\ UNCHANGED <<engineState, logsDir, logVars, engVars, wireVars, wengine,
                   options, docs, updVars, frame>>

\* engine.open_help(name)
CallOpenHelp(t, name) ==
    /\ t = Main
    /\ engineState = "live"
    /\ Idle(t)
    /\ frame' = [frame EXCEPT ![t] = [Enter("open_help", "help_169") EXCEPT
                                        !.name = name]]
    /\ UNCHANGED <<engineState, logsDir, logVars, engVars, wireVars, wengine,
                   envVars>>

\* lines 169-171: lang = self.settings.get_language(); the path in lang
Help169(t) ==
    /\ At(t, "help_169")
    /\ frame' = [frame EXCEPT
                   ![t].pc = "help_172",
                   ![t].lang = language,
                   ![t].filename = HelpFile(frame[t].name),
                   ![t].lpath = DocPath(language, HelpFile(frame[t].name))]
    /\ UNCHANGED <<engineState, logsDir, logVars, engVars, wireVars, wengine,
                   envVars>>

\* self.logger.debug(...); os.startfile(path); return
StartFile(f, msg) ==
    Returned([Log(f, logger, "DEBUG", msg) EXCEPT !.started = Append(@, f.lpath)],
             None)

\* Help172 without the test: the file in the user's language is never opened.
Help172_Skipped(t) ==
    /\ At(t, "help_172")
    /\ frame' = [frame EXCEPT ![t].pc = "help_179"]
    /\ UNCHANGED <<engineState, logsDir, logVars, engVars, wireVars, wengine,
                   envVars>>

\* lines 172-176: the file in the user's language
Help172(t) ==
    /\ At(t, "help_172")
    /\ frame' = [frame EXCEPT ![t] =
                   IF Exists(@.lpath)
                   THEN StartFile(@, "Open the help file for " \o @.name
                                     \o " (lang=" \o @.lang \o ")")
                   ELSE [@ EXCEPT !.pc = "help_179"]]
    /\ UNCHANGED <<engineState, logsDir, logVars, engVars, wireVars, wengine,
                   envVars>>

\* line 179: path = os.path.join("doc", "en", filename)
Help179(t) ==
    /\ At(t, "help_179")
    /\ frame' = [frame EXCEPT ![t].pc = "help_180",
                              ![t].lpath = DocPath("en", frame[t].filename)]
    /\ UNCHANGED <<engineState, logsDir, logVars, engVars, wireVars, wengine,
                   envVars>>

\* Help180 without the test: the English path is opened, found or not.
Help180_AlwaysStarts(t) ==
    /\ At(t, "help_180")
    /\ frame' = [frame EXCEPT ![t] =
                   StartFile(@, "Open the help file for " \o @.name
                                \o " (lang=en)")]
    /\ UNCHANGED <<engineState, logsDir, logVars, engVars, wireVars, wengine,
                   envVars>>

\* lines 180-189: the English file, or the debug entry that neither was found
Help180(t) ==
    /\ At(t, "help_180")
    /\ frame' = [frame EXCEPT ![t] =
                   IF Exists(@.lpath)
                   THEN StartFile(@, "Open the help file for " \o @.name
                                     \o " (lang=en)")
                   ELSE Returned(Log(@, logger, "DEBUG",
                            "The documentation for the " \o @.name
                            \o " help file cannot be found, either using lang="
                            \o @.lang \o " or lang=en"), None)]
    /\ UNCHANGED <<engineState, logsDir, logVars, engVars, wireVars, wengine,
                   envVars>>

HelpStep(t) ==
    \/ \E n \in HelpNames : CallOpenHelp(t, n)
    \/ Help169(t) \/ Help172(t) \/ Help179(t) \/ Help180(t)

\* -------------------------------------------------------------- Updater

\* How many events are posted in one run of the updater.
MaxPosts == 3

\* The values the autoupdater reports: percentages, texts, a build number.
GaugeValues == {0, 50, 100}
Texts == {"Downloading", "Installing"}
Builds == {2}

\* The events of the four types.  GetValue() is a number for a gauge or
\* available-update event (field value) and a string for a text event (field
\* text).
GaugeEvent(v) == [type |-> "gauge", value |-> v, text |-> None]
TextEvent(s) == [type |-> "text", value |-> 0, text |-> s]
ForceDestroyEvent == [type |-> "force_destroy", value |-> 0, text |-> None]
AvailableUpdateEvent(b) == [type |-> "available_update", value |-> b, text |-> None]

\* wx.PostEvent(self, evt): the event joins the frame's pending events.
PostEvent(evt) == events' = Append(events, evt)

\* The autoupdater thread calls one of the four methods of the frame.
CallUpdate(t, op, v, s) ==
    /\ t \in Workers
    /\ Idle(t)
    /\ Len(events) + Len(handled) < MaxPosts
    /\ frame' = [frame EXCEPT ![t] = [Enter(op, "post") EXCEPT
                                        !.value = v, !.text = s]]
    /\ UNCHANGED <<engineState, logsDir, logVars, engVars, wireVars, wengine,
                   envVars>>

\* evt = GaugeEvent(myEVT_GAUGE, -1, value); wx.PostEvent(self, evt)
UpdateGauge(t) ==
    /\ At(t, "post") /\ frame[t].op = "UpdateGauge"
    /\ PostEvent(GaugeEvent(frame[t].value))
    /\ frame' = [frame EXCEPT ![t] = Returned(@, None)]
    /\ UNCHANGED <<engineState, logsDir, logVars, engVars, wireVars, wengine,
                   options, language, docs, default_text, text, gauge,
                   destroyed, handled>>

\* evt = TextEvent(myEVT_TEXT, -1, text); wx.PostEvent(self, evt)
UpdateText(t) ==
    /\ At(t, "post") /\ frame[t].op = "UpdateText"
    /\ PostEvent(TextEvent(frame[t].text))
    /\ frame' = [frame EXCEPT ![t] = Returned(@, None)]
    /\ UNCHANGED <<engineState, logsDir, logVars, engVars, wireVars, wengine,
                   options, language, docs, default_text, text, gauge,
                   destroyed, handled>>

\* evt = ForceDestroyEvent(myEVT_FORCE_DESTROY, -1, None); wx.PostEvent(self, evt)
AskDestroy(t) ==
    /\ At(t, "post") /\ frame[t].op = "AskDestroy"
    /\ PostEvent(ForceDestroyEvent)
    /\ frame' = [frame EXCEPT ![t] = Returned(@, None)]
    /\ UNCHANGED <<engineState, logsDir, logVars, engVars, wireVars, wengine,
                   options, language, docs, default_text, text, gauge,
                   destroyed, handled>>

\* evt = AvailableUpdateEvent(myEVT_AVAILABLE_UPDATE, -1, build);
\* wx.PostEvent(self, evt)
AvailableUpdate(t) ==
    /\ At(t, "post") /\ frame[t].op = "AvailableUpdate"
    /\ PostEvent(AvailableUpdateEvent(frame[t].value))
    /\ frame' = [frame EXCEPT ![t] = Returned(@, None)]
    /\ UNCHANGED <<engineState, logsDir, logVars, engVars, wireVars, wengine,
                   options, language, docs, default_text, text, gauge,
                   destroyed, handled>>

\* The main loop takes the oldest pending event of the frame and calls the
\* handler bound to its type; a destroyed frame handles nothing.
Dispatched(type) ==
    /\ ~destroyed
    /\ events # <<>>
    /\ Head(events).type = type
    /\ events' = Tail(events)
    /\ handled' = Append(handled, Head(events))

\* " ({}%)".format(v)
Percent(v) == " (" \o ToString(v) \o "%)"

\* OnGauge that keeps the text it has built as the default text.
OnGauge_StoresText ==
    /\ Dispatched("gauge")
    /\ gauge' = Head(events).value
    /\ default_text' = default_text \o Percent(Head(events).value)
    /\ text' = default_text'
    /\ UNCHANGED <<engineState, logsDir, logVars, engVars, wireVars, wengine,
                   options, language, docs, destroyed, frame>>

\* Updater.OnGauge
OnGauge ==
    /\ Dispatched("gauge")
    /\ gauge' = Head(events).value
    /\ text' = default_text \o Percent(Head(events).value)
    /\ UNCHANGED <<engineState, logsDir, logVars, engVars, wireVars, wengine,
                   options, language, docs, default_text, destroyed, frame>>

\* Updater.OnText
OnText ==
    /\ Dispatched("text")
    /\ default_text' = Head(events).text
    /\ text' = Head(events).text
    /\ UNCHANGED <<engineState, logsDir, logVars, engVars, wireVars, wengine,
                   options, language, docs, gauge, destroyed, frame>>

\* Updater.OnForceDestroy: self.Destroy()
OnForceDestroy ==
    /\ Dispatched("force_destroy")
    /\ destroyed' = TRUE
    /\ UNCHANGED <<engineState, logsDir, logVars, engVars, wireVars, wengine,
                   options, language, docs, default_text, text, gauge, frame>>

\* DummyUpdater.OnAvailableUpdate, which Updater inherits: pass
OnAvailableUpdate ==
    /\ Dispatched("available_update")
    /\ UNCHANGED <<engineState, logsDir, logVars, engVars, wireVars, wengine,
                   options, language, docs, default_text, text, gauge,
                   destroyed, frame>>

\* Updater.OnCancel with the answer wx.YES: self.Destroy()
OnCancel ==
    /\ ~destroyed
    /\ destroyed' = TRUE
    /\ UNCHANGED <<engineState, logsDir, logVars, engVars, wireVars, wengine,
                   options, language, docs, default_text, text, gauge, events,
                   handled, frame>>

UpdaterStep(t) ==
    \/ \E v \in GaugeValues : CallUpdate(t, "UpdateGauge", v, None)
    \/ \E s \in Texts : CallUpdate(t, "UpdateText", 0, s)
    \/ CallUpdate(t, "AskDestroy", 0, None)
    \/ \E b \in Builds : CallUpdate(t, "AvailableUpdate", b, None)
    \/ UpdateGauge(t) \/ UpdateText(t) \/ AskDestroy(t) \/ AvailableUpdate(t)

HandlerStep ==
    OnGauge \/ OnText \/ OnForceDestroy \/ OnAvailableUpdate \/ OnCancel

\* ------------------------------------------------------ specifications

CreateLoggerStep(t) ==
    \/ CL104(t) \/ CL111(t) \/ CL114(t) \/ CL120(t) \/ CL126(t) \/ CL129(t)
    \/ CL130(t)

InitStep(t) ==
    \/ Construct(t) \/ Init85(t) \/ Init88(t) \/ Init89(t) \/ Init89Assign(t)
    \/ Init90(t) \/ Init91(t) \/ Init92(t) \/ Init93(t) \/ Init94(t)
    \/ CreateLoggerStep(t)

LogStep(t) ==
    \E n \in LogNames, f \in FileNames : CallCreateLogger(t, n, f)

\* Thread t is inside create_logger.
InCreateLogger(t) ==
    frame[t].pc \in {"cl_104", "cl_111", "cl_114", "cl_120", "cl_126", "cl_129",
                     "cl_130"}

\* A create_logger call that starts while no other thread is inside
\* create_logger for the same logger.
DistinctLogStep(t) ==
    \E n \in LogNames, f \in FileNames :
        /\ \A u \in Threads \ {t} :
              InCreateLogger(u) => PhysicalName(frame[u].name) # PhysicalName(n)
        /\ CallCreateLogger(t, n, f)

\* The control thread constructs the engine, loads and opens worlds.
Next ==
    \/ InitStep(Main) \/ LoadStep(Main) \/ OpenStep(Main)
    \/ \E w \in Worlds : AddWorld(w)

\* The control thread constructs the engine and creates loggers.
NextLog == InitStep(Main) \/ LogStep(Main)

\* Every thread creates loggers.
NextConc == \E t \in Threads : InitStep(t) \/ LogStep(t)

\* Every thread creates loggers, concurrently only for distinct names.
NextDistinct == \E t \in Threads : InitStep(t) \/ DistinctLogStep(t)

\* The control thread constructs the engine and opens help files.
NextHelp ==
    \/ InitStep(Main) \/ HelpStep(Main)
    \/ \E d \in SUBSET AllDocs : SetDocs(d)
    \/ \E l \in Langs : SetLanguage(l)

\* The control thread constructs the engine, loads, and uses the settings.
NextSettings == InitStep(Main) \/ LoadStep(Main) \/ SettingsStep(Main)

\* The control thread as in Spec, while a worker reads the worlds' wiring.
NextWire == Next \/ \E t \in Workers, w \in Worlds : Observe(t, w)

Spec == Init /\ [][Next]_vars
SpecLog == Init /\ [][NextLog]_vars
SpecConc == Init /\ [][NextConc]_vars
SpecHelp == Init /\ [][NextHelp]_vars
SpecWire == Init /\ [][NextWire]_vars
SpecSettings == Init /\ [][NextSettings]_vars
SpecDistinct == Init /\ [][NextDistinct]_vars

\* The autoupdater thread posts events to the Updater frame and the main
\* loop handles them.
NextUpdater == (\E t \in Workers : UpdaterStep(t)) \/ HandlerStep
SpecUpdater == Init /\ [][NextUpdater]_vars

\* ------------------------------------------------------------ properties

\* Thread t leaves the call of op in this step.
Leaves(t, op) == frame[t].op = op /\ ~Idle(t) /\ frame'[t].pc = "idle"

\* The handlers of one kind on a named logger.
Sinks(n, kind) == {i \in DOMAIN handlers[n] : handlers[n][i].kind = kind}

\* C1: on one engine, under any sequence of create_logger calls, a logger
\* once cached stays cached as the same logger with the same handlers (a later
\* call, whatever its filename, attaches nothing and changes nothing), and
\* every call that returns, returns the cached logger of its physical name.
C1_CachedLoggerUnchanged ==
    [][/\ \A n \in DOMAIN loggers :
             /\ n \in DOMAIN loggers'
             /\ loggers'[n] = loggers[n]
             /\ handlers'[n] = handlers[n]
       /\ \A t \in Threads :
             Leaves(t, "create_logger") /\ frame'[t].result = "returned"
                => /\ frame'[t].lname \in DOMAIN loggers'
                   /\ frame'[t].ret = loggers'[frame'[t].lname]
                   /\ frame'[t].ret = PhysicalName(frame[t].name)]_vars

\* A second create_logger("sharp", "logs/custom.log") has returned the logger
\* that the first call built with its default file.
C1_Witness ==
    /\ Idle(Main)
    /\ frame[Main].op = "create_logger"
    /\ frame[Main].result = "returned"
    /\ frame[Main].ret = "cocomud.sharp"
    /\ frame[Main].lfile = "logs/custom.log"
    /\ handlers["cocomud.sharp"] = <<FileHandler("logs/sharp.log")>>

\* C2: with create_logger calls of several threads interleaved, every cached
\* logger has exactly one file handler, and a stream handler exactly when it
\* is the main logger (then one).
C2_OneSinkPerLogger ==
    \A n \in DOMAIN loggers :
        /\ Cardinality(Sinks(n, "file")) = 1
        /\ Cardinality(Sinks(n, "stream")) = IF n = "cocomud" THEN 1 ELSE 0

\* C3: when open raises on a world whose client and sharp_engine were unset,
\* they are still unset, and no client built for that world has a
\* sharp_engine.
C3_FailedOpenLeavesNoWiring ==
    \A t \in Threads :
        (/\ Idle(t)
         /\ frame[t].op = "open"
         /\ frame[t].result = "raised"
         /\ frame[t].pre = <<None, None>>)
        => /\ wclient[frame[t].world] = None
           /\ wsharp[frame[t].world] = None
           /\ \A c \in DOMAIN clients :
                 clients[c].world = frame[t].world
                    => clients[c].sharp_engine = None

\* open has raised in SharpScript's constructor, after the client was built.
C3_Witness ==
    /\ Idle(Main)
    /\ frame[Main].op = "open"
    /\ frame[Main].result = "raised"
    /\ frame[Main].pre = <<None, None>>
    /\ \E c \in DOMAIN clients : clients[c].world = frame[Main].world

\* The wiring of a world: nothing set, or client and sharp_engine set and
\* referring to each other and to the world.
Wired(w) ==
    /\ wclient[w] \in DOMAIN clients
    /\ wsharp[w] \in DOMAIN sharps
    /\ clients[wclient[w]].sharp_engine = wsharp[w]
    /\ clients[wclient[w]].world = w
    /\ sharps[wsharp[w]].client = wclient[w]
    /\ sharps[wsharp[w]].world = w
Unwired(w) == wclient[w] = None /\ wsharp[w] = None

\* C4: whenever the control thread is not inside open, every world is either
\* unwired or wired.
C4_WiringInvariant ==
    (frame[Main].op = "open" => Idle(Main))
        => \A w \in Worlds : Unwired(w) \/ Wired(w)

\* One world is wired and a later open has failed.
C4_Witness ==
    /\ Idle(Main)
    /\ frame[Main].op = "open"
    /\ frame[Main].result = "raised"
    /\ \E w \in Worlds : Wired(w)

\* C5: no step of open(host, port, w) changes the client or sharp_engine of
\* another world or the sharp_engine of another world's client, and when
\* open returns, it returns w.client, whose sharp_engine is w.sharp_engine.
C5_OpenFrame ==
    [][\A t \in Threads :
          (frame[t].op = "open" /\ ~Idle(t))
             => /\ \A w1 \in Worlds \ {frame[t].world} :
                      /\ wclient'[w1] = wclient[w1]
                      /\ wsharp'[w1] = wsharp[w1]
                      /\ wclient[w1] # None
                            => clients'[wclient[w1]] = clients[wclient[w1]]
                /\ (frame'[t].pc = "idle" /\ frame'[t].result = "returned")
                      => /\ frame'[t].ret \in DOMAIN clients'
                         /\ frame'[t].ret = wclient'[frame[t].world]
                         /\ wsharp'[frame[t].world] \in DOMAIN sharps'
                         /\ clients'[frame'[t].ret].sharp_engine
                               = wsharp'[frame[t].world]]_vars

\* open has returned for one world while another world is wired.
C5_Witness ==
    /\ Idle(Main)
    /\ frame[Main].op = "open"
    /\ frame[Main].result = "returned"
    /\ Wired(frame[Main].world)
    /\ \E w1 \in Worlds \ {frame[Main].world} : Wired(w1)

\* load has run to its end at least once: both flags are cached and the
\* control thread is not inside load.
LoadCompleted ==
    /\ TTS_on # Unset
    /\ TTS_outside # Unset
    /\ frame[Main].op = "load" => Idle(Main)

\* C6, as claimed: once load has completed, every world in the map has its
\* engine back-reference, worlds put into the map later included.
C6_EveryKnownWorldHasEngine ==
    LoadCompleted => \A w \in worlds : wengine[w] = "self"

\* C6, amended: when load returns, every world then in the map has its engine
\* back-reference, and a back-reference once set is never cleared.
C6_LoadSetsEngineOfCurrentWorlds ==
    [][/\ (Leaves(Main, "load") /\ frame'[Main].result = "returned")
             => \A w \in worlds' : wengine'[w] = "self"
       /\ \A w \in Worlds : wengine[w] = "self" => wengine'[w] = "self"]_vars

\* load has returned with both worlds in the map.
C6_Witness ==
    /\ Idle(Main)
    /\ frame[Main].op = "load"
    /\ frame[Main].result = "returned"
    /\ worlds = Worlds
    /\ \A w \in Worlds : wengine[w] = "self"

\* C7: whatever another thread reads of a world while open runs is unwired or
\* fully wired: never a client without sharp_engine on the world, never a
\* client whose own sharp_engine is unset or differs from the world's.
C7_NoPartialWiringObserved ==
    \A t \in Workers :
        frame[t].op = "observe"
           => \/ frame[t].seen[1] = None /\ frame[t].seen[2] = None
              \/ /\ frame[t].seen[1] # None
                 /\ frame[t].seen[2] # None
                 /\ frame[t].seen[3] = frame[t].seen[2]

\* The session state of a world, read off the engine: a call of open on it is
\* running, or it is wired, or neither.  Nothing in the engine closes a world.
SessionState(w) ==
    IF \E t \in Threads : frame[t].op = "open" /\ ~Idle(t) /\ frame[t].world = w
    THEN "opening"
    ELSE IF wclient[w] # None /\ wsharp[w] # None THEN "open"
    ELSE "unopened"

\* C8, as claimed: a world's session state changes only along
\* unopened -> opening -> open -> closed.
C8_ForwardOnly ==
    [][\A w \in Worlds :
          \/ SessionState(w)' = SessionState(w)
          \/ <<SessionState(w), SessionState(w)'>> \in
                {<<"unopened", "opening">>, <<"opening", "open">>,
                 <<"open", "closed">>}]_vars

\* C8, amended: a world's session state changes only from unopened or open to
\* opening (open is called), from opening to open (open returns, or fails on a
\* world that was wired) and from opening to unopened (open fails on a world
\* that was not wired).
C8_SessionTransitions ==
    [][\A w \in Worlds :
          \/ SessionState(w)' = SessionState(w)
          \/ /\ SessionState(w)' = "opening"
             /\ SessionState(w) \in {"unopened", "open"}
             /\ frame[Main].pc = "idle"
          \/ /\ SessionState(w) = "opening"
             /\ SessionState(w)' = "open"
             /\ \/ frame'[Main].result = "returned"
                \/ frame'[Main].result = "raised" /\ frame[Main].pre[1] # None
          \/ /\ SessionState(w) = "opening"
             /\ SessionState(w)' = "unopened"
             /\ frame'[Main].result = "raised"
             /\ frame[Main].pre = <<None, None>>]_vars

\* open is running on a world that was already wired.
C8_Witness ==
    \E w \in Worlds :
        /\ SessionState(w) = "opening"
        /\ frame[Main].world = w
        /\ frame[Main].pre[1] # None
        /\ frame[Main].pre[2] # None

\* C9: open_help hands the viewer doc/{lang}/{name}.html when that file
\* exists, else doc/en/{name}.html when that one exists, else nothing; never
\* more than one path.
C9_HelpFallback ==
    [][\A t \in Threads :
          Leaves(t, "open_help")
             => LET pref == "doc/" \o language \o "/" \o frame[t].name \o ".html"
                    en == "doc/en/" \o frame[t].name \o ".html"
                    got == frame'[t].started
                IN  /\ pref \in docs => got = <<pref>>
                    /\ (pref \notin docs /\ en \in docs) => got = <<en>>
                    /\ (pref \notin docs /\ en \notin docs) => got = <<>>]_vars

\* With the French and the English file both present, the French one was
\* opened.
C9_Witness ==
    /\ Idle(Main)
    /\ frame[Main].op = "open_help"
    /\ frame[Main].started = <<"doc/fr/macros.html">>
    /\ {"doc/fr/macros.html", "doc/en/macros.html"} \subseteq docs

\* C10: when neither file exists, open_help returns without raising, hands
\* the viewer nothing and emits exactly one log record, of level DEBUG, that
\* names the user's language and en; and no step of open_help changes the
\* engine's loggers, settings, worlds, flags or wiring.
C10_HelpNotFound ==
    [][\A t \in Threads :
          /\ (frame[t].op = "open_help" /\ ~Idle(t))
                => UNCHANGED <<logVars, engVars, wireVars, wengine, options>>
          /\ (/\ Leaves(t, "open_help")
              /\ ("doc/" \o language \o "/" \o frame[t].name \o ".html") \notin docs
              /\ ("doc/en/" \o frame[t].name \o ".html") \notin docs)
                => /\ frame'[t].result = "returned"
                   /\ frame'[t].started = <<>>
                   /\ Len(frame'[t].logs) = 1
                   /\ frame'[t].logs[1].level = "DEBUG"
                   /\ frame'[t].logs[1].msg =
                         "The documentation for the " \o frame[t].name
                         \o " help file cannot be found, either using lang="
                         \o language \o " or lang=en"]_vars

\* open_help("macros") has returned with French configured and no file found.
C10_Witness ==
    /\ Idle(Main)
    /\ frame[Main].op = "open_help"
    /\ frame[Main].result = "returned"
    /\ frame[Main].lang = "fr"
    /\ frame[Main].started = <<>>
    /\ Len(frame[Main].logs) = 1

\* The handlers a first create_logger(name, filename) is to attach: for the
\* main logger a stream handler of level INFO and a file handler of level
\* DEBUG on logs/main.log; for any other name one file handler of level DEBUG
\* on the filename given, or on logs/{name}.log when none is given.
FirstAcquireSinks(name, filename) ==
    IF name = ""
    THEN <<[kind |-> "stream", level |-> "INFO", file |-> None,
            formatter |-> FALSE],
           [kind |-> "file", level |-> "DEBUG", file |-> "logs/main.log",
            formatter |-> TRUE]>>
    ELSE <<[kind |-> "file", level |-> "DEBUG",
            file |-> IF filename = None \/ filename = ""
                     THEN "logs/" \o name \o ".log" ELSE filename,
            formatter |-> TRUE]>>

\* C11: the call that caches a logger caches it under "cocomud" for the name
\* "" and under "cocomud." + name otherwise (never under "cocomud"), with
\* exactly the handlers of FirstAcquireSinks; and every cached logger has one
\* file handler, and one stream handler if it is the main logger, else none.
C11_RootAndChildSinks ==
    [][/\ \A t \in Threads :
             (At(t, "cl_130") /\ frame'[t].pc # "cl_130")
                => LET n == frame[t].name
                       p == IF n = "" THEN "cocomud" ELSE "cocomud." \o n
                   IN  /\ n # "" => p # "cocomud"
                       /\ DOMAIN loggers' = DOMAIN loggers \cup {p}
                       /\ loggers'[p] = p
                       /\ handlers'[p] = FirstAcquireSinks(n, frame[t].filename)
       /\ \A p \in DOMAIN loggers' :
             /\ Cardinality(Sinks(p, "file")') = 1
             /\ Cardinality(Sinks(p, "stream")') = IF p = "cocomud" THEN 1 ELSE 0
             /\ \A i \in DOMAIN handlers'[p] :
                   handlers'[p][i].level
                      = IF handlers'[p][i].kind = "stream" THEN "INFO" ELSE "DEBUG"
      ]_vars

\* create_logger("sharp", "logs/custom.log") has built a logger with one file
\* handler on that file, next to the main logger with its two handlers.
C11_Witness ==
    /\ Idle(Main)
    /\ frame[Main].op = "create_logger"
    /\ frame[Main].result = "returned"
    /\ frame[Main].ret = "cocomud.sharp"
    /\ handlers["cocomud.sharp"] = <<FileHandler("logs/custom.log")>>
    /\ Len(handlers["cocomud"]) = 2

\* ------------------------------------------------------------------ C12

\* The value the precedence category > character > world > engine gives a
\* key, spelled out layer by layer, then the declared default.
ByPrecedence(key) ==
    IF key \in DOMAIN options.layers.category THEN options.layers.category[key]
    ELSE IF key \in DOMAIN options.layers.character
         THEN options.layers.character[key]
    ELSE IF key \in DOMAIN options.layers.world THEN options.layers.world[key]
    ELSE IF key \in DOMAIN options.layers.engine THEN options.layers.engine[key]
    ELSE options.defaults[key]

\* C12: a lookup returns the value of the most specific layer that defines
\* the key, in the order category > character > world > engine, and the
\* declared default when no layer defines it; the ranks of Level are
\* engine < world < character < category.
C12_GetPrecedence ==
    [][/\ Level.engine < Level.world
       /\ Level.world < Level.character
       /\ Level.character < Level.category
       /\ \A t \in Threads :
            (/\ Leaves(t, "get")
             /\ \/ \E l \in LevelNames : frame[t].name \in DOMAIN options.layers[l]
                \/ frame[t].name \in DOMAIN options.defaults)
            => /\ frame'[t].result = "returned"
               /\ frame'[t].ret = ByPrecedence(frame[t].name)]_vars

\* A lookup returned C with engine = A, world = B, character = C and no
\* category override.
C12_Witness ==
    /\ Idle(Main)
    /\ frame[Main].op = "get"
    /\ frame[Main].result = "returned"
    /\ frame[Main].ret = "C"
    /\ settings = "loaded"
    /\ "options.TTS.on" \notin DOMAIN options.layers.category
    /\ "options.TTS.on" \in DOMAIN options.layers.character
    /\ "options.TTS.on" \in DOMAIN options.layers.world
    /\ "options.TTS.on" \in DOMAIN options.layers.engine
    /\ options.layers.character["options.TTS.on"] = "C"
    /\ options.layers.world["options.TTS.on"] = "B"
    /\ options.layers.engine["options.TTS.on"] = "A"

\* ------------------------------------------------------------------ C13

\* No layer defines the key and it has no declared default.
Undefined(key) ==
    /\ \A l \in LevelNames : key \notin DOMAIN options.layers[l]
    /\ key \notin DOMAIN options.defaults

\* C13: a lookup of a key that no layer defines and that has no declared
\* default raises and returns no value; in load() the error ends the call
\* at the failing line with the flag not assigned; the layers are unchanged.
C13_UndefinedKeyRaises ==
    [][\A t \in Threads :
         /\ (Leaves(t, "get") /\ Undefined(frame[t].name))
            => /\ frame'[t].result = "raised"
               /\ frame'[t].ret = None
               /\ options' = options
         /\ (At(t, "load_137") /\ Undefined("options.TTS.on"))
            => /\ Idle(t)'
               /\ frame'[t].result = "raised"
               /\ UNCHANGED <<TTS_on, TTS_outside, wengine, options>>
         /\ (At(t, "load_138") /\ Undefined("options.TTS.outside"))
            => /\ Idle(t)'
               /\ frame'[t].result = "raised"
               /\ UNCHANGED <<TTS_on, TTS_outside, wengine, options>>]_vars

\* load() raised at line 138: options.TTS.on resolved from a layer,
\* options.TTS.outside is defined nowhere.
C13_Witness ==
    /\ Idle(Main)
    /\ frame[Main].op = "load"
    /\ frame[Main].result = "raised"
    /\ TTS_on = "B"
    /\ TTS_outside = Unset
    /\ Undefined("options.TTS.outside")

\* ------------------------------------------------------------------ C14

\* C14: when create_logger calls overlap only for distinct names, the call
\* that caches a logger returns the logger of its own physical name with
\* exactly the handlers of a first sequential call and keeps every other
\* cache entry; a step of a call changes the handlers of its own logger
\* only; and every cached logger has one file handler, and one stream
\* handler if it is the main logger, else none.
C14_DistinctNamesSafe ==
    [][/\ \A t \in Threads :
            (At(t, "cl_130") /\ frame'[t].pc # "cl_130")
               => LET p == PhysicalName(frame[t].name)
                  IN  /\ frame'[t].ret = p
                      /\ p \in DOMAIN loggers' /\ loggers'[p] = p
                      /\ handlers'[p]
                           = FirstAcquireSinks(frame[t].name, frame[t].filename)
                      /\ \A q \in DOMAIN loggers :
                            q \in DOMAIN loggers' /\ loggers'[q] = loggers[q]
       /\ \A t \in Threads :
            (InCreateLogger(t) /\ frame'[t] # frame[t])
               => \A q \in PhysNames \ {PhysicalName(frame[t].name)} :
                     handlers'[q] = handlers[q]
       /\ \A p \in DOMAIN loggers' :
            /\ Cardinality(Sinks(p, "file")') = 1
            /\ Cardinality(Sinks(p, "stream")') = IF p = "cocomud" THEN 1 ELSE 0
      ]_vars

\* Two calls for distinct names are both about to cache their logger, each
\* with its file handler attached.
C14_Witness ==
    /\ At(Main, "cl_130") /\ frame[Main].name = "sharp"
    /\ At("worker", "cl_130") /\ frame["worker"].name = "client"
    /\ handlers["cocomud.sharp"] = <<FileHandler("logs/custom.log")>>
    /\ handlers["cocomud.client"] = <<FileHandler("logs/client.log")>>
    /\ DOMAIN loggers = {"cocomud"}

\* ------------------------------------------------------------------ C15

\* C15: open runs only after load has completed, so no world has a client
\* while TTS_on or TTS_outside is undefined; and within load the flags are
\* read after the settings are loaded, and the worlds get their engine after
\* both flags are read.
C15_LoadBeforeOpen ==
    /\ (frame[Main].op = "open" /\ ~Idle(Main)) => LoadCompleted
    /\ \A w \in Worlds :
          wclient[w] # None => TTS_on # Unset /\ TTS_outside # Unset
    /\ (TTS_on # Unset \/ TTS_outside # Unset) => settings = "loaded"
    /\ \A w \in Worlds :
          wengine[w] # None => TTS_on # Unset /\ TTS_outside # Unset

\* ------------------------------------------------------------------ C16

\* C16: construction creates the logs directory first (line 85), then the
\* main logger, then the settings, then the empty world map, then the level;
\* when it returns, the only cached logger is "cocomud", the world map is
\* empty, the level is Level.engine and the logs directory exists; and the
\* logs directory is created by line 85 only, never inside create_logger.
C16_ConstructionOrder ==
    [][/\ logsDir' # logsDir
            => /\ At(Main, "init_85")
               /\ loggers = <<>> /\ logger = Unset /\ settings = Unset
       /\ logger' # logger
            => /\ logsDir /\ logger' = "cocomud"
               /\ DOMAIN loggers = {"cocomud"}
               /\ settings = Unset /\ level = Unset
       /\ settings' # settings
            => /\ logger = "cocomud" /\ settings' = "constructed"
               /\ frame[Main].pc = "init_90" /\ frame'[Main].pc = "init_91"
               /\ level = Unset
       /\ (At(Main, "init_91") /\ frame' # frame)
            => /\ settings = "constructed" /\ worlds' = {}
               /\ frame'[Main].pc = "init_92"
               /\ level = Unset
       /\ level' # level
            => /\ settings = "constructed" /\ worlds = {}
               /\ frame[Main].pc = "init_93"
               /\ level' = "engine"
       /\ (Leaves(Main, "__init__") /\ frame'[Main].result = "returned")
            => /\ DOMAIN loggers' = {"cocomud"}
               /\ logger' = "cocomud"
               /\ worlds' = {}
               /\ level' = "engine"
               /\ logsDir'
       /\ \A t \in Threads : InCreateLogger(t) => logsDir' = logsDir
      ]_vars

\* The engine is constructed: __init__ has returned.
C16_Witness ==
    /\ Idle(Main)
    /\ frame[Main].op = "__init__"
    /\ frame[Main].result = "returned"
    /\ engineState = "live"
    /\ logsDir
    /\ level = "engine"

\* ------------------------------------------------------------------ C17

\* C17: when the file handler cannot be created for a logger that is not
\* cached (the main logger during construction, or a child), the call raises
\* with no entry cached for the physical name and no handler, stream or file,
\* attached to the logger.
C17_FailedAcquireLeavesNothing ==
    \A t \in Threads :
        (/\ Idle(t)
         /\ frame[t].op \in {"__init__", "create_logger"}
         /\ frame[t].result = "raised"
         /\ frame[t].lname # None)
        => /\ frame[t].lname \notin DOMAIN loggers
           /\ handlers[frame[t].lname] = <<>>

\* ------------------------------------------------------------------ C18

\* C18: when open is called on a world that already has a client and a
\* sharp_engine, then if it returns, the world's client is the returned
\* client and not the old one, its sharp_engine is a new one, and the three
\* refer to each other; if it raises, the world still has the old client and
\* the old sharp_engine, and they still refer to each other.
C18_ReopenReplacesPair ==
    [][\A t \in Threads :
         (Leaves(t, "open") /\ frame[t].pre[1] # None)
         => LET w == frame[t].world IN
            IF frame'[t].result = "returned"
            THEN /\ wclient'[w] = frame'[t].ret
                 /\ wclient'[w] # frame[t].pre[1]
                 /\ wsharp'[w] # frame[t].pre[2]
                 /\ clients'[wclient'[w]].sharp_engine = wsharp'[w]
                 /\ clients'[wclient'[w]].sharp_engine # frame[t].pre[2]
                 /\ Wired(w)'
            ELSE /\ wclient'[w] = frame[t].pre[1]
                 /\ wsharp'[w] = frame[t].pre[2]
                 /\ Wired(w)']_vars

\* A second open on a wired world has returned.
C18_Witness ==
    /\ Idle(Main)
    /\ frame[Main].op = "open"
    /\ frame[Main].result = "returned"
    /\ frame[Main].pre[1] # None
    /\ wclient[frame[Main].world] = frame[Main].ret
    /\ frame[Main].ret # frame[Main].pre[1]

\* ------------------------------------------------------------------ C19

\* The value of the last text event among some events, "Loading..." if none.
LastText(es) ==
    LET ts == SelectSeq(es, LAMBDA e : e.type = "text")
    IN  IF Len(ts) = 0 THEN "Loading..." ELSE ts[Len(ts)].text

\* The text and gauge events among some events.
TextAndGauge(es) == SelectSeq(es, LAMBDA e : e.type \in {"text", "gauge"})

\* C19: a call of UpdateGauge, UpdateText, AskDestroy or AvailableUpdate
\* posts exactly one event, of its type and with its value; after the events
\* handled so far the default text is the value of the last text event
\* ("Loading..." if none), and the text shown is that value when the last
\* of the text and gauge events was a text event, and the default text
\* followed by " (N%)" when it was a gauge event of value N; handling a
\* gauge event leaves the default text as it is.
C19_UpdaterEvents ==
    [][/\ \A t \in Threads :
            /\ Leaves(t, "UpdateGauge")
                 => events' = Append(events, [type |-> "gauge",
                                              value |-> frame[t].value,
                                              text |-> None])
            /\ Leaves(t, "UpdateText")
                 => events' = Append(events, [type |-> "text", value |-> 0,
                                              text |-> frame[t].text])
            /\ Leaves(t, "AskDestroy")
                 => /\ Len(events') = Len(events) + 1
                    /\ events'[Len(events')].type = "force_destroy"
                    /\ SubSeq(events', 1, Len(events)) = events
            /\ Leaves(t, "AvailableUpdate")
                 => /\ Len(events') = Len(events) + 1
                    /\ events'[Len(events')].type = "available_update"
                    /\ events'[Len(events')].value = frame[t].value
                    /\ SubSeq(events', 1, Len(events)) = events
       /\ default_text' = LastText(handled')
       /\ LET tg == TextAndGauge(handled') IN
            Len(tg) > 0 =>
               LET e == tg[Len(tg)] IN
               IF e.type = "text" THEN text' = e.text
               ELSE text' = LastText(handled') \o " (" \o ToString(e.value) \o "%)"
       /\ (Len(handled') = Len(handled) + 1
             /\ handled'[Len(handled')].type = "gauge")
            => default_text' = default_text
      ]_vars

\* After a text event and two gauge events the frame shows the text of the
\* text event with the last percentage.
C19_Witness ==
    /\ Len(handled) = 3
    /\ handled[1].type = "text"
    /\ handled[2].type = "gauge"
    /\ handled[3].type = "gauge"
    /\ default_text = "Downloading"
    /\ text = "Downloading (100%)"
====
